---- MODULE Spec2Model ----
(***************************************************************************)
(* A state-machine model of the Tushle dashboard frontend (React/TS):      *)
(*   - AuthContext (AuthProvider, login, logout) and App's ProtectedRoute  *)
(*   - the task pages (Tasks.tsx, TaskManagement)                          *)
(*   - the Clients page, ClientForm and MeetingManagement's delete         *)
(*   - the queries of EmployeeProfile, Dashboard and TaskManagement        *)
(* Text is modelled as a sequence of one-character strings.  An absent     *)
(* value (null / undefined) is the string "null" or a record of the same   *)
(* shape as the present ones, so that values stay comparable.              *)
(***************************************************************************)
EXTENDS Integers, Sequences, FiniteSets, TLC

VARIABLES
    \* ---- AuthContext.tsx, App (part_001), TaskManagement's auth reads
    localStorage,   \* window.localStorage: key -> value ("null" = no item)
    user,           \* AuthProvider state `user`
    loading,        \* AuthProvider state `loading`
    mountPc,        \* position of AuthProvider's mount effect
    mountTok,       \* the bearer token its GET /auth/me was sent with
    loginPc,        \* position of an ongoing login() call
    loginAccount,   \* the account login() was called for
    loginTok,       \* the bearer token login()'s GET /auth/me was sent with
    path,           \* the router's location
    view,           \* what App renders at that location
    tmMounted,      \* TaskManagement is mounted
    tmIsAdmin,      \* TaskManagement's `isAdmin` at its last render
    sent,           \* the authenticated requests sent by the latest step
    \* ---- the task pages: Tasks.tsx and TaskManagement (part_004)
    taskStatus,     \* backend: task id -> stored status
    taskAssignee,   \* backend: task id -> assigned_to_id
    pageOf,         \* browser session -> the task page it shows
    tasksData,      \* session -> task id -> status in the displayed list
    tasksFetch,     \* session -> the list request in flight, or its response
    inflight,       \* session -> the PUT requests in flight
    taskError,      \* session -> TaskManagement's `error`
    taskLoading,    \* session -> `loading` / React Query's isLoading
    lastFetch,      \* session -> how the last list request ended
    lastPut,        \* the last task update request sent
    \* ---- React Query: the queries of EmployeeProfile and Dashboard
    qStatus,        \* query -> "loading" | "success" | "error"
    qData,          \* query -> the query's data
    qFailures,      \* query -> failureCount of the running fetch
    qLastFailed,    \* query -> its last HTTP request failed
    \* ---- pages/Clients.tsx with its two ClientForm instances
    serverClients,  \* the clients the backend stores
    nextClientId,   \* the id the backend gives the next client
    cq,             \* ['clients'] and ['clientStats']: the React Query state
    showAddModal, editingClient, selectedClient, notification, timer,
    forms,          \* "add" | "edit" -> formData, errors, isSubmitting
    mutations,      \* the create / update / delete requests in flight
    lastConfirm,    \* the last confirmation dialog: the item and the answer
    \* ---- MeetingManagement
    serverMeetings, meetings, meetingsFetch, meetingError, meetingDeletes,
    \* ---- the create-task forms of Tasks.tsx and TaskManagement
    newTask,        \* page -> the form's title and assigned_to_id
    showCreate,     \* page -> showCreateModal / showCreateForm
    creates,        \* the create-task requests in flight
    \* ---- pages/Clients.tsx: search, status filter and pagination
    searchTerm, statusFilter, currentPage,
    pageCache,      \* query key -> the data React Query holds for it
    pageRequests,   \* the query keys with a GET /clients/ in flight
    \* ---- ClientPortal
    isSubmitting, isSubmitted,
    portalPosts     \* the POST .../submit requests in flight

authVars == <<localStorage, user, loading, mountPc, mountTok, loginPc,
              loginAccount, loginTok,
              path, view, tmMounted, tmIsAdmin, sent>>

taskVars == <<taskStatus, taskAssignee, pageOf, tasksData, tasksFetch, inflight,
              taskError, taskLoading, lastFetch, lastPut>>

queryVars == <<qStatus, qData, qFailures, qLastFailed>>

clientVars == <<serverClients, nextClientId, cq, showAddModal, editingClient,
                selectedClient, notification, timer, forms, mutations,
                lastConfirm>>

meetingVars == <<serverMeetings, meetings, meetingsFetch, meetingError,
                 meetingDeletes>>

createVars == <<newTask, showCreate, creates>>

listVars == <<searchTerm, statusFilter, currentPage, pageCache, pageRequests>>

portalVars == <<isSubmitting, isSubmitted, portalPosts>>

vars == <<authVars, taskVars, queryVars, clientVars, meetingVars, createVars, listVars, portalVars>>

NULL == "null"

(***************************************************************************)
(* Accounts known to the backend.                                          *)
(***************************************************************************)
NoUser == [id |-> 0, role |-> NULL]
Accounts == {[id |-> 1, role |-> "admin"], [id |-> 2, role |-> "employee"]}

\* The access_token POST /auth/login returns for an account.
TokenOf(u) == IF u.id = 1 THEN "jwt1" ELSE "jwt2"
ValidTokens == {TokenOf(u) : u \in Accounts}
\* GET /auth/me answers with the user the bearer token belongs to.
UserOf(tok) == CHOOSE u \in Accounts : TokenOf(u) = tok

StorageKeys == {"token", "access_token", "user_role"}
StoredTokens == ValidTokens \cup {"expired", NULL}

Paths == {"/login", "/portal", "/", "/tasks", "/employees"}
PublicPaths == {"/login", "/portal"}

(***************************************************************************)
(* Authenticated requests.  `session` is the token login() has stored      *)
(* (localStorage 'token') when the request is sent, `loggedIn` whether     *)
(* AuthContext holds a user at that moment.                                *)
(***************************************************************************)
Req(by, endpoint, bearer, ls, u) ==
    [by |-> by, endpoint |-> endpoint, bearer |-> bearer,
     session |-> ls["token"], loggedIn |-> (u # NoUser)]

\* The bearer token the shared axios instance (lib/api) attaches.
ApiBearer(ls) == ls["token"]

\* const token = localStorage.getItem('access_token') of the fetch-based pages.
FetchBearer(ls) == ls["access_token"]

\* const userRole = localStorage.getItem('user_role') || 'employee'
UserRole(ls) == IF ls["user_role"] = NULL THEN "employee" ELSE ls["user_role"]

\* const isAdmin = userRole === 'admin'
IsAdmin(ls) == UserRole(ls) = "admin"

(***************************************************************************)
(* App: ProtectedRoute and the route table.                                *)
(***************************************************************************)
ProtectedRoute_NoUserCheck(u, l) ==
    IF l THEN "spinner" ELSE "children"

ProtectedRoute(u, l) ==
    IF l THEN "spinner"
    ELSE IF u = NoUser THEN "navigate"
    ELSE "children"

RenderApp(p, u, l) ==
    IF p = "/login" THEN [path |-> p, view |-> "login"]
    ELSE IF p = "/portal" THEN [path |-> p, view |-> "portal"]
    ELSE LET pr == ProtectedRoute(u, l) IN
         IF pr = "spinner" THEN [path |-> p, view |-> "spinner"]
         ELSE IF pr = "navigate" THEN [path |-> "/login", view |-> "login"]
         ELSE [path |-> p, view |-> "page"]

\* Tasks.tsx: user?.role === 'admin' guards the Create Task button, the
\* create modal, the assignee filter and the employees query.
TasksAdminControls(u) == u.role = "admin"

\* EmployeeManagement.tsx: the page body is rendered unless role !== 'admin'.
EmployeeManagementBody(u) == ~(u.role # "admin")

\* The queries a routed page starts when it mounts (axios, via lib/api).
PageQueries(p, u, ls) ==
    IF p = "/tasks" THEN
        {Req("Tasks", "/tasks/stats", ApiBearer(ls), ls, u),
         Req("Tasks", "/tasks/", ApiBearer(ls), ls, u)}
        \cup (IF TasksAdminControls(u)
              THEN {Req("Tasks", "/tasks/employees/list", ApiBearer(ls), ls, u)}
              ELSE {})
    ELSE IF p = "/employees" THEN
        (IF EmployeeManagementBody(u)
         THEN {Req("EmployeeManagement", "/users/employees", ApiBearer(ls), ls, u)}
         ELSE {})
    ELSE IF p = "/" THEN
        {Req("Dashboard", "/dashboard/stats", ApiBearer(ls), ls, u)}
    ELSE {}

\* TaskManagement's useEffect: fetchTasks, fetchStats and, for isAdmin,
\* fetchEmployees.
TaskManagementQueries(u, ls) ==
    {Req("TaskManagement", "/tasks/", FetchBearer(ls), ls, u),
     Req("TaskManagement", "/tasks/stats", FetchBearer(ls), ls, u)}
    \cup (IF IsAdmin(ls)
          THEN {Req("TaskManagement", "/tasks/employees/list", FetchBearer(ls), ls, u)}
          ELSE {})

\* The re-render that follows a state change: location p, user u, loading l,
\* storage ls; reqs are the requests the handler itself sent.
Rendered(p, u, l, ls, reqs) ==
    LET r == RenderApp(p, u, l)
        mounts == r.view = "page" /\ (view # "page" \/ path # r.path)
    IN  /\ path' = r.path
        /\ view' = r.view
        /\ sent' = reqs \cup (IF mounts THEN PageQueries(r.path, u, ls) ELSE {})
        /\ tmMounted' = (tmMounted /\ r.view = "page")
        /\ tmIsAdmin' = (tmIsAdmin /\ r.view = "page")

(***************************************************************************)
(* AuthProvider.                                                           *)
(***************************************************************************)
AuthStart(tok, p) ==
    /\ localStorage = [k \in StorageKeys |-> IF k = "token" THEN tok ELSE NULL]
    /\ user = NoUser
    /\ loading = TRUE
    /\ mountPc = "start"
    /\ mountTok = NULL
    /\ loginPc = "idle"
    /\ loginAccount = NoUser
    /\ loginTok = NULL
    /\ path = RenderApp(p, NoUser, TRUE).path
    /\ view = RenderApp(p, NoUser, TRUE).view
    /\ tmMounted = FALSE
    /\ tmIsAdmin = FALSE
    /\ sent = {}

AuthInit == \E tok \in StoredTokens, p \in Paths : AuthStart(tok, p)

\* useEffect(() => { const token = localStorage.getItem('token'); ... }, [])
MountEffect ==
    /\ mountPc = "start"
    /\ IF localStorage["token"] # NULL
       THEN /\ mountPc' = "verifying"
            /\ mountTok' = ApiBearer(localStorage)
            /\ loading' = loading
            /\ Rendered(path, user, loading, localStorage,
                        {Req("AuthProvider", "/auth/me", ApiBearer(localStorage),
                             localStorage, user)})
       ELSE /\ mountPc' = "done"
            /\ mountTok' = mountTok
            /\ loading' = FALSE
            /\ Rendered(path, user, FALSE, localStorage, {})
    /\ UNCHANGED <<localStorage, user, loginPc, loginAccount, loginTok>>
    /\ UNCHANGED <<taskVars, queryVars, clientVars, meetingVars, createVars, listVars, portalVars>>

\* .then(response => setUser(response.data)).finally(() => setLoading(false))
\* The backend answers 200 only for a token it issued.
MountVerifyOk ==
    /\ mountPc = "verifying"
    /\ mountTok \in ValidTokens
    /\ mountPc' = "done"
    /\ user' = UserOf(mountTok)
    /\ loading' = FALSE
    /\ Rendered(path, UserOf(mountTok), FALSE, localStorage, {})
    /\ UNCHANGED <<localStorage, mountTok, loginPc, loginAccount, loginTok>>
    /\ UNCHANGED <<taskVars, queryVars, clientVars, meetingVars, createVars, listVars, portalVars>>

\* A mutation of MountVerifyFail: the finally block is missing.
MountVerifyFail_NoFinally ==
    /\ mountPc = "verifying"
    /\ mountPc' = "done"
    /\ localStorage' = [localStorage EXCEPT !["token"] = NULL]
    /\ loading' = loading
    /\ Rendered(path, user, loading, localStorage', {})
    /\ UNCHANGED <<user, mountTok, loginPc, loginAccount, loginTok>>
    /\ UNCHANGED <<taskVars, queryVars, clientVars, meetingVars, createVars, listVars, portalVars>>

\* .catch(() => localStorage.removeItem('token')).finally(() => setLoading(false))
\* The request fails for a token the backend rejects, or for any network error.
MountVerifyFail ==
    /\ mountPc = "verifying"
    /\ mountPc' = "done"
    /\ localStorage' = [localStorage EXCEPT !["token"] = NULL]
    /\ loading' = FALSE
    /\ Rendered(path, user, FALSE, localStorage', {})
    /\ UNCHANGED <<user, mountTok, loginPc, loginAccount, loginTok>>
    /\ UNCHANGED <<taskVars, queryVars, clientVars, meetingVars, createVars, listVars, portalVars>>

\* login(email, password): api.post('/api/v1/auth/login', ...) is sent.
\* (pages/Login, the caller, is shown at /login.)
LoginStart(a) ==
    /\ mountPc # "start"
    /\ view = "login"
    /\ loginPc = "idle"
    /\ loginPc' = "posting"
    /\ loginAccount' = a
    /\ UNCHANGED <<localStorage, user, loading, mountPc, mountTok, loginTok,
                   path, view, tmMounted, tmIsAdmin, sent>>
    /\ UNCHANGED <<taskVars, queryVars, clientVars, meetingVars, createVars, listVars, portalVars>>

\* const { access_token } = response.data;
\* localStorage.setItem('token', access_token); api.get('/api/v1/auth/me') is sent.
LoginPostOk ==
    /\ loginPc = "posting"
    /\ loginPc' = "me"
    /\ localStorage' = [localStorage EXCEPT !["token"] = TokenOf(loginAccount)]
    /\ loginTok' = ApiBearer(localStorage')
    /\ Rendered(path, user, loading, localStorage',
                {Req("AuthProvider", "/auth/me", ApiBearer(localStorage'),
                     localStorage', user)})
    /\ UNCHANGED <<user, loading, mountPc, mountTok, loginAccount>>
    /\ UNCHANGED <<taskVars, queryVars, clientVars, meetingVars, createVars, listVars, portalVars>>

\* The POST rejects: login() throws before anything is stored.
LoginPostFail ==
    /\ loginPc = "posting"
    /\ loginPc' = "idle"
    /\ UNCHANGED <<localStorage, user, loading, mountPc, mountTok, loginAccount,
                   loginTok, path, view, tmMounted, tmIsAdmin, sent>>
    /\ UNCHANGED <<taskVars, queryVars, clientVars, meetingVars, createVars, listVars, portalVars>>

\* setUser(userResponse.data)
LoginMeOk ==
    /\ loginPc = "me"
    /\ loginTok \in ValidTokens
    /\ loginPc' = "idle"
    /\ user' = UserOf(loginTok)
    /\ Rendered(path, UserOf(loginTok), loading, localStorage, {})
    /\ UNCHANGED <<localStorage, loading, mountPc, mountTok, loginAccount, loginTok>>
    /\ UNCHANGED <<taskVars, queryVars, clientVars, meetingVars, createVars, listVars, portalVars>>

\* The GET rejects: login() throws after the token was stored.
LoginMeFail ==
    /\ loginPc = "me"
    /\ loginPc' = "idle"
    /\ UNCHANGED <<localStorage, user, loading, mountPc, mountTok, loginAccount,
                   loginTok, path, view, tmMounted, tmIsAdmin, sent>>
    /\ UNCHANGED <<taskVars, queryVars, clientVars, meetingVars, createVars, listVars, portalVars>>

\* logout(): localStorage.removeItem('token'); setUser(null)
\* (called from Layout, which the protected routes render)
Logout ==
    /\ view = "page"
    /\ localStorage' = [localStorage EXCEPT !["token"] = NULL]
    /\ user' = NoUser
    /\ Rendered(path, NoUser, loading, localStorage', {})
    /\ UNCHANGED <<loading, mountPc, mountTok, loginPc, loginAccount, loginTok>>
    /\ UNCHANGED <<taskVars, queryVars, clientVars, meetingVars, createVars, listVars, portalVars>>

\* The user follows a link or enters a URL.
Navigate(p) ==
    /\ mountPc # "start"
    /\ p # path
    /\ Rendered(p, user, loading, localStorage, {})
    /\ UNCHANGED <<localStorage, user, loading, mountPc, mountTok, loginPc,
                   loginAccount, loginTok>>
    /\ UNCHANGED <<taskVars, queryVars, clientVars, meetingVars, createVars, listVars, portalVars>>

\* TaskManagement mounts for a signed-in user: isAdmin is computed by the
\* render, then the effect runs fetchTasks, fetchStats and fetchEmployees.
MountTaskManagement ==
    /\ view = "page"
    /\ ~tmMounted
    /\ tmMounted' = TRUE
    /\ tmIsAdmin' = IsAdmin(localStorage)
    /\ sent' = TaskManagementQueries(user, localStorage)
    /\ UNCHANGED <<localStorage, user, loading, mountPc, mountTok, loginPc,
                   loginAccount, loginTok, path, view>>
    /\ UNCHANGED <<taskVars, queryVars, clientVars, meetingVars, createVars, listVars, portalVars>>

AuthNext ==
    \/ MountEffect
    \/ MountVerifyOk
    \/ MountVerifyFail
    \/ \E a \in Accounts : LoginStart(a)
    \/ LoginPostOk
    \/ LoginPostFail
    \/ LoginMeOk
    \/ LoginMeFail
    \/ Logout
    \/ \E p \in Paths : Navigate(p)
    \/ MountTaskManagement

(***************************************************************************)
(* The task pages.  Two browser sessions show the same backend tasks: s1   *)
(* on Tasks.tsx (React Query + axios), s2 on TaskManagement (fetch).       *)
(***************************************************************************)
NumTasks == 1
MaxInFlight == 1
MaxHours == 2

TaskIds == 1..NumTasks
Sessions == {"s1", "s2"}

\* status: 'todo' | 'in_progress' | 'review' | 'completed' | 'blocked'
Status == {"todo", "in_progress", "review", "completed", "blocked"}

\* Position in the lifecycle todo -> in_progress -> review -> completed/blocked.
Rank(st) ==
    CASE st = "todo" -> 0
      [] st = "in_progress" -> 1
      [] st = "review" -> 2
      [] st = "completed" -> 3
      [] st = "blocked" -> 3

UNDEFINED == "undefined"
EmptyBody == [f \in {} |-> NULL]

\* The user a session is signed in as, and the page it shows.
SessionUser(s) == IF s = "s1" THEN [id |-> 2, role |-> "employee"]
                  ELSE [id |-> 1, role |-> "admin"]
SessionPage(s) == IF s = "s1" THEN "Tasks" ELSE "TaskManagement"

\* Tasks.tsx, Status Update Buttons: the statuses the buttons of a task shown
\* with status st request.
TasksButtons(st, assignee, u) ==
    IF u.role = "admin" \/ assignee = u.id
    THEN (IF st = "todo" THEN {"in_progress"} ELSE {})
         \cup (IF st = "in_progress" THEN {"review", "completed"} ELSE {})
         \cup (IF st = "review" THEN {"completed"} ELSE {})
    ELSE {}

\* TaskManagement, status buttons.
TaskManagementButtons(st) ==
    IF st # "completed"
    THEN (IF st = "todo" THEN {"in_progress"} ELSE {})
         \cup (IF st = "in_progress" THEN {"review", "completed"} ELSE {})
         \cup (IF st = "review" THEN {"completed"} ELSE {})
    ELSE {}

Buttons(pg, st, assignee, u) ==
    IF st = NULL THEN {}
    ELSE IF pg = "Tasks" THEN TasksButtons(st, assignee, u)
    ELSE TaskManagementButtons(st)

\* JavaScript truthiness of an optional string.
Truthy(str) == str # UNDEFINED /\ str # ""

\* A mutation of UpdateData: the whole task is spread into the body.
UpdateData_WholeTask(status, actual_hours) ==
    [f \in {"status", "title"} |-> IF f = "status" THEN status ELSE "t"]

\* Tasks.tsx updateTaskMutation.mutationFn: the body of the PUT.
\* actual_hours is <<>> when undefined and <<n>> when given.
UpdateData(status, actual_hours) ==
    [f \in (IF Truthy(status) THEN {"status"} ELSE {})
           \cup (IF actual_hours # <<>> THEN {"actual_hours"} ELSE {})
        |-> IF f = "status" THEN status ELSE actual_hours[1]]

\* TaskManagement.updateTaskStatus: body: JSON.stringify({ status })
\* (JSON.stringify leaves out a property whose value is undefined).
StatusBody(status) ==
    [f \in (IF status # UNDEFINED THEN {"status"} ELSE {}) |-> status]

\* A list request: idle, sent, or answered (resp) with the response's items.
NoItems == [t \in TaskIds |-> NULL]
FetchIdle == [pc |-> "idle", items |-> NoItems]
FetchSent == [pc |-> "sent", items |-> NoItems]

NoPut == [task |-> 0, page |-> NULL, body |-> EmptyBody, stored |-> NULL,
          status |-> UNDEFINED, hours |-> <<>>]

TasksStart(st, as) ==
    /\ taskStatus = st
    /\ taskAssignee = as
    /\ pageOf = [s \in Sessions |-> SessionPage(s)]
    /\ tasksData = [s \in Sessions |-> NoItems]
    /\ tasksFetch = [s \in Sessions |-> FetchSent]
    /\ inflight = [s \in Sessions |-> {}]
    /\ taskError = [s \in Sessions |-> NULL]
    /\ taskLoading = [s \in Sessions |-> TRUE]
    /\ lastFetch = [s \in Sessions |-> "none"]
    /\ lastPut = NoPut

\* Both pages are mounted and their first list request is on its way.
TasksInit ==
    \E st \in [TaskIds -> Status], as \in [TaskIds -> {1, 2}] : TasksStart(st, as)

TasksIdle == TasksStart([t \in TaskIds |-> "todo"], [t \in TaskIds |-> 2])

\* The backend answers the list request with the tasks as stored now.
TasksServe(s) ==
    /\ tasksFetch[s].pc = "sent"
    /\ tasksFetch' = [tasksFetch EXCEPT ![s] = [pc |-> "resp", items |-> taskStatus]]
    /\ UNCHANGED <<taskStatus, taskAssignee, pageOf, tasksData, inflight,
                   taskError, lastPut, 
                   taskLoading, lastFetch>>
    /\ UNCHANGED <<authVars, queryVars, clientVars, meetingVars, createVars, listVars, portalVars>>

\* The response arrives: React Query's data / setTasks(data.items).
TasksFetchOk(s) ==
    /\ tasksFetch[s].pc = "resp"
    /\ tasksData' = [tasksData EXCEPT ![s] = tasksFetch[s].items]
    /\ tasksFetch' = [tasksFetch EXCEPT ![s] = FetchIdle]
    /\ taskLoading' = [taskLoading EXCEPT ![s] = FALSE]
    /\ lastFetch' = [lastFetch EXCEPT ![s] = "ok"]
    /\ UNCHANGED <<taskStatus, taskAssignee, pageOf, inflight, taskError, lastPut>>
    /\ UNCHANGED <<authVars, queryVars, clientVars, meetingVars, createVars, listVars, portalVars>>

\* A mutation of TasksFetchFail: the catch block sends the request again.
TasksFetchFail_Retry(s) ==
    /\ tasksFetch[s].pc # "idle"
    /\ tasksFetch' = [tasksFetch EXCEPT ![s] = FetchSent]
    /\ taskError' = [taskError EXCEPT ![s] =
                        IF pageOf[s] = "TaskManagement"
                        THEN "Failed to fetch tasks" ELSE @]
    /\ taskLoading' = [taskLoading EXCEPT ![s] = FALSE]
    /\ lastFetch' = [lastFetch EXCEPT ![s] = "failed"]
    /\ UNCHANGED <<taskStatus, taskAssignee, pageOf, tasksData, inflight, lastPut>>
    /\ UNCHANGED <<authVars, queryVars, clientVars, meetingVars, createVars, listVars, portalVars>>

\* The list request fails: TaskManagement.fetchTasks sets error (catch) and
\* clears loading (finally); the displayed list stays as it was.
TasksFetchFail(s) ==
    /\ tasksFetch[s].pc # "idle"
    /\ tasksFetch' = [tasksFetch EXCEPT ![s] = FetchIdle]
    /\ taskError' = [taskError EXCEPT ![s] =
                        IF pageOf[s] = "TaskManagement"
                        THEN "Failed to fetch tasks" ELSE @]
    /\ taskLoading' = [taskLoading EXCEPT ![s] = FALSE]
    /\ lastFetch' = [lastFetch EXCEPT ![s] = "failed"]
    /\ UNCHANGED <<taskStatus, taskAssignee, pageOf, tasksData, inflight, lastPut>>
    /\ UNCHANGED <<authVars, queryVars, clientVars, meetingVars, createVars, listVars, portalVars>>

\* A refetch: a filter or page change (the queryKey / the effect's deps),
\* or React Query's refetch on focus.
TasksRefetch(s) ==
    /\ tasksFetch[s].pc = "idle"
    /\ tasksFetch' = [tasksFetch EXCEPT ![s] = FetchSent]
    /\ UNCHANGED <<taskStatus, taskAssignee, pageOf, tasksData, inflight,
                   taskError, lastPut, 
                   taskLoading, lastFetch>>
    /\ UNCHANGED <<authVars, queryVars, clientVars, meetingVars, createVars, listVars, portalVars>>

\* The PUT a page sends for (taskId, status, actual_hours).
SendPut(s, t, status, hours) ==
    LET body == IF pageOf[s] = "Tasks" THEN UpdateData(status, hours)
                ELSE StatusBody(status)
    IN  /\ Cardinality(inflight[s]) < MaxInFlight
        /\ inflight' = [inflight EXCEPT ![s] = @ \cup {[task |-> t, body |-> body]}]
        /\ lastPut' = [task |-> t, page |-> pageOf[s], body |-> body,
                       stored |-> taskStatus[t], status |-> status, hours |-> hours]

\* A click on a status button of task t as the session displays it:
\* handleStatusChange(task.id, st) / updateTaskStatus(task.id, st).
ClickStatus(s, t, st) ==
    /\ st \in Buttons(pageOf[s], tasksData[s][t], taskAssignee[t], SessionUser(s))
    /\ SendPut(s, t, st, <<>>)
    /\ UNCHANGED <<taskStatus, taskAssignee, pageOf, tasksData, tasksFetch, taskError, 
                   taskLoading, lastFetch>>
    /\ UNCHANGED <<authVars, queryVars, clientVars, meetingVars, createVars, listVars, portalVars>>

\* PUT /api/v1/tasks/{id}: the backend stores the fields the body holds.
ServerPut(t, body) ==
    IF "status" \in DOMAIN body /\ body["status"] \in Status
    THEN [taskStatus EXCEPT ![t] = body["status"]]
    ELSE taskStatus

\* The PUT succeeds: onSuccess invalidates ['tasks'] and ['taskStats'];
\* TaskManagement calls fetchTasks() and fetchStats().
PutOk(s, r) ==
    /\ r \in inflight[s]
    /\ inflight' = [inflight EXCEPT ![s] = @ \ {r}]
    /\ taskStatus' = ServerPut(r.task, r.body)
    /\ tasksFetch' = [tasksFetch EXCEPT ![s] = FetchSent]
    /\ UNCHANGED <<taskAssignee, pageOf, tasksData, taskError, lastPut, 
                   taskLoading, lastFetch>>
    /\ UNCHANGED <<authVars, queryVars, clientVars, meetingVars, createVars, listVars, portalVars>>

\* The PUT fails: TaskManagement sets error, Tasks.tsx has no onError.
PutFail(s, r) ==
    /\ r \in inflight[s]
    /\ inflight' = [inflight EXCEPT ![s] = @ \ {r}]
    /\ taskError' = [taskError EXCEPT ![s] =
                        IF pageOf[s] = "TaskManagement"
                        THEN "Failed to update task" ELSE @]
    /\ UNCHANGED <<taskStatus, taskAssignee, pageOf, tasksData, tasksFetch, lastPut, 
                   taskLoading, lastFetch>>
    /\ UNCHANGED <<authVars, queryVars, clientVars, meetingVars, createVars, listVars, portalVars>>

\* TaskManagement: the Dismiss button, setError(null).
DismissError(s) ==
    /\ taskError[s] # NULL
    /\ taskError' = [taskError EXCEPT ![s] = NULL]
    /\ UNCHANGED <<taskStatus, taskAssignee, pageOf, tasksData, tasksFetch,
                   inflight, lastPut, 
                   taskLoading, lastFetch>>
    /\ UNCHANGED <<authVars, queryVars, clientVars, meetingVars, createVars, listVars, portalVars>>

TasksNext ==
    \/ \E s \in Sessions : TasksServe(s)
    \/ \E s \in Sessions : TasksFetchOk(s)
    \/ \E s \in Sessions : TasksFetchFail(s)
    \/ \E s \in Sessions : TasksRefetch(s)
    \/ \E s \in Sessions, t \in TaskIds, st \in Status : ClickStatus(s, t, st)
    \/ \E s \in Sessions : \E r \in inflight[s] : PutOk(s, r)
    \/ \E s \in Sessions : \E r \in inflight[s] : PutFail(s, r)
    \/ \E s \in Sessions : DismissError(s)

\* The update functions called with any arguments of their types, one
\* request at a time:
\* updateTaskMutation.mutate({ taskId, status?, actual_hours? }) on Tasks.tsx,
\* updateTaskStatus(taskId, status) on TaskManagement.
OptStatus == Status \cup {UNDEFINED, ""}
OptHours == {<<>>} \cup {<<n>> : n \in 0..MaxHours}

UpdateCall(s, t, status, hours) ==
    /\ \A x \in Sessions : inflight[x] = {}
    /\ pageOf[s] = "TaskManagement" => hours = <<>>
    /\ SendPut(s, t, status, hours)
    /\ UNCHANGED <<taskStatus, taskAssignee, pageOf, tasksData, tasksFetch, taskError, 
                   taskLoading, lastFetch>>
    /\ UNCHANGED <<authVars, queryVars, clientVars, meetingVars, createVars, listVars, portalVars>>

UpdateNext ==
    \/ \E s \in Sessions, t \in TaskIds, st \in OptStatus, h \in OptHours :
          UpdateCall(s, t, st, h)
    \/ \E s \in Sessions : \E r \in inflight[s] : PutOk(s, r)
    \/ \E s \in Sessions : \E r \in inflight[s] : PutFail(s, r)

(***************************************************************************)
(* Data loading: the React Query queries of EmployeeProfile and Dashboard, *)
(* next to the list request of the task pages above.                       *)
(***************************************************************************)
\* new QueryClient() with no options: a query whose queryFn throws is
\* retried 3 times before it ends in the error status.
QueryRetry == 3

AnalyticsQueries == {"employee-task-analytics", "employee-finance-analytics",
                     "employee-project-analytics", "employee-lead-analytics"}
ProfileQueries == {"employee"} \cup AnalyticsQueries
Queries == ProfileQueries \cup {"dashboard-stats"}

\* What a query holds: nothing, the response's data, or the object literal
\* of the catch block.
SERVER == "server"
MOCK == "mock"

\* A mutation of QueryFn: the catch block rethrows.
QueryFn_Rethrow(q, ok) ==
    IF ok THEN [threw |-> FALSE, data |-> SERVER]
    ELSE [threw |-> TRUE, data |-> UNDEFINED]

\* The queryFn of query q run against a request that succeeds (ok) or
\* fails: the analytics queries catch the error and return mock data, the
\* employee and dashboard-stats queries let it through.
QueryFn(q, ok) ==
    IF ok THEN [threw |-> FALSE, data |-> SERVER]
    ELSE IF q \in AnalyticsQueries THEN [threw |-> FALSE, data |-> MOCK]
    ELSE [threw |-> TRUE, data |-> UNDEFINED]

QueriesStart(st) ==
    /\ qStatus = [q \in Queries |-> st]
    /\ qData = [q \in Queries |-> UNDEFINED]
    /\ qFailures = [q \in Queries |-> 0]
    /\ qLastFailed = [q \in Queries |-> FALSE]

\* No page with a query is mounted.
QueriesIdle == QueriesStart("idle")

\* EmployeeProfile and Dashboard are mounted, every query is fetching.
QueriesInit == QueriesStart("loading")

\* The request of query q succeeds.
QueryOk(q) ==
    /\ qStatus[q] = "loading"
    /\ qStatus' = [qStatus EXCEPT ![q] = "success"]
    /\ qData' = [qData EXCEPT ![q] = QueryFn(q, TRUE).data]
    /\ qLastFailed' = [qLastFailed EXCEPT ![q] = FALSE]
    /\ UNCHANGED qFailures
    /\ UNCHANGED <<authVars, taskVars, clientVars, meetingVars, createVars, listVars, portalVars>>

\* The request of query q fails.
QueryFail(q) ==
    LET r == QueryFn(q, FALSE)
    IN  /\ qStatus[q] = "loading"
        /\ qLastFailed' = [qLastFailed EXCEPT ![q] = TRUE]
        /\ IF ~r.threw
           THEN /\ qStatus' = [qStatus EXCEPT ![q] = "success"]
                /\ qData' = [qData EXCEPT ![q] = r.data]
                /\ UNCHANGED qFailures
           ELSE IF qFailures[q] < QueryRetry
           THEN /\ qFailures' = [qFailures EXCEPT ![q] = @ + 1]
                /\ UNCHANGED <<qStatus, qData>>
           ELSE /\ qStatus' = [qStatus EXCEPT ![q] = "error"]
                /\ qFailures' = [qFailures EXCEPT ![q] = @ + 1]
                /\ UNCHANGED qData
        /\ UNCHANGED <<authVars, taskVars, clientVars, meetingVars, createVars, listVars, portalVars>>

\* isLoading of a query.
IsLoading(q) == qStatus[q] = "loading"

\* EmployeeProfile: what the page returns.
EmployeeProfileView ==
    IF IsLoading("employee") THEN "spinner"
    ELSE IF qData["employee"] = UNDEFINED THEN "Employee not found"
    ELSE "profile"

\* Dashboard: the value of the stat cards, stats?.x || 0.
DashboardCards ==
    IF IsLoading("dashboard-stats") THEN "skeleton"
    ELSE IF qData["dashboard-stats"] = UNDEFINED THEN "0"
    ELSE qData["dashboard-stats"]

FetchNext ==
    \/ \E q \in Queries : QueryOk(q)
    \/ \E q \in Queries : QueryFail(q)
    \/ \E s \in Sessions : TasksServe(s)
    \/ \E s \in Sessions : TasksFetchOk(s)
    \/ \E s \in Sessions : TasksFetchFail(s)

(***************************************************************************)
(* Clients: the Clients page, its Add and Edit ClientForm instances, and   *)
(* the backend's clients.  Text is a sequence of one-character strings.    *)
(***************************************************************************)
MaxClientId == 2

Whitespace == {" "}
Digits == {"0", "1", "2", "3", "4", "5", "6", "7", "8", "9"}

RECURSIVE TrimStart(_)
TrimStart(str) ==
    IF str # <<>> /\ Head(str) \in Whitespace THEN TrimStart(Tail(str)) ELSE str

RECURSIVE TrimEnd(_)
TrimEnd(str) ==
    IF str # <<>> /\ str[Len(str)] \in Whitespace
    THEN TrimEnd(SubSeq(str, 1, Len(str) - 1)) ELSE str

\* String.prototype.trim
Trim(str) == TrimEnd(TrimStart(str))

\* /^[^\s@]+@[^\s@]+\.[^\s@]+$/.test(str)
EmailPattern(str) ==
    \E i \in 2..Len(str) : \E j \in (i + 2)..(Len(str) - 1) :
        /\ str[i] = "@"
        /\ str[j] = "."
        /\ \A k \in (1..Len(str)) \ {i} : str[k] \notin Whitespace \cup {"@"}

\* str.replace(/[\s\-\(\)]/g, '')
StripPhone(str) == SelectSeq(str, LAMBDA c : c \notin Whitespace \cup {"-", "(", ")"})

\* /^[\+]?[1-9][\d]{0,15}$/.test(str)
PhonePattern(str) ==
    LET t == IF str # <<>> /\ Head(str) = "+" THEN Tail(str) ELSE str
    IN  /\ t # <<>>
        /\ Head(t) \in Digits \ {"0"}
        /\ Len(t) - 1 <= 15
        /\ \A k \in 2..Len(t) : t[k] \in Digits

NoErrors == [f \in {} |-> ""]

\* A mutation of ValidateForm: the phone number is not checked.
ValidateForm_NoPhone(formData) ==
    LET nameBad == Trim(formData.name) = <<>>
        emailMsg == IF Trim(formData.email) = <<>> THEN "Email is required"
                    ELSE IF ~EmailPattern(formData.email)
                    THEN "Please enter a valid email address" ELSE ""
    IN  [f \in (IF nameBad THEN {"name"} ELSE {})
               \cup (IF emailMsg # "" THEN {"email"} ELSE {})
            |-> IF f = "name" THEN "Name is required" ELSE emailMsg]

\* validateForm: newErrors, the messages of the fields that fail.
ValidateForm(formData) ==
    LET nameBad == Trim(formData.name) = <<>>
        emailMsg == IF Trim(formData.email) = <<>> THEN "Email is required"
                    ELSE IF ~EmailPattern(formData.email)
                    THEN "Please enter a valid email address" ELSE ""
        phoneBad == formData.phone # <<>> /\ ~PhonePattern(StripPhone(formData.phone))
    IN  [f \in (IF nameBad THEN {"name"} ELSE {})
               \cup (IF emailMsg # "" THEN {"email"} ELSE {})
               \cup (IF phoneBad THEN {"phone"} ELSE {})
            |-> IF f = "name" THEN "Name is required"
                ELSE IF f = "email" THEN emailMsg
                ELSE "Please enter a valid phone number"]

\* The fields of a client that the form edits.
Fields == {"name", "email", "phone", "company", "status", "onboarding_stage"}

MkData(name, email, phone) ==
    [name |-> name, email |-> email, phone |-> phone, company |-> <<>>,
     status |-> "pending", onboarding_stage |-> "initial"]

\* formData of a ClientForm rendered without a client, and after a create.
EmptyForm == MkData(<<>>, <<>>, <<>>)

\* useState's initial formData: client?.x || default (c is <<>> or <<client>>).
InitialFormData(c) ==
    IF c = <<>> THEN EmptyForm
    ELSE [f \in Fields |->
            IF f = "status" THEN c[1].status
            ELSE IF f = "onboarding_stage"
            THEN (IF c[1].onboarding_stage = "" THEN "initial" ELSE c[1].onboarding_stage)
            ELSE c[1][f]]

\* A client as the backend stores and returns it.
ClientOf(id, data) == [id |-> id] @@ data

NameA == <<"a">>
NameB == <<"b">>
EmailA == <<"a", "@", "a", ".", "a">>

Client1 == [ClientOf(1, MkData(NameA, EmailA, <<"1">>)) EXCEPT
               !.status = "active", !.onboarding_stage = "discovery"]
Client2 == ClientOf(2, MkData(NameB, EmailA, <<>>))

ClientQueries == {"clients", "clientStats"}

\* GET /api/v1/clients/ and GET /api/v1/clients/stats on the clients srv.
ServerView(q, srv) ==
    IF q = "clients" THEN srv
    ELSE [total_clients |-> Cardinality(srv),
          active_clients |-> Cardinality({c \in srv : c.status = "active"})]

\* A query: data and items are <<>> (undefined) or <<value>>.
QueryStart(st, pc) ==
    [status |-> st, data |-> <<>>, invalidated |-> FALSE, pc |-> pc, items |-> <<>>]

\* queryClient.invalidateQueries for the keys Q: the queries are marked
\* invalidated and, being active, refetched (a running fetch is cancelled).
Invalidate(c, Q) ==
    [q \in ClientQueries |->
        IF q \in Q
        THEN [c[q] EXCEPT !.invalidated = TRUE, !.pc = "sent", !.items = <<>>]
        ELSE c[q]]

\* A mutation of InvalidatedOnSuccess: a delete leaves ['clientStats'] alone.
InvalidatedOnSuccess_Partial(kind) ==
    IF kind = "delete" THEN {"clients"} ELSE {"clients", "clientStats"}

\* The query keys onSuccess of the create, update and delete mutation
\* invalidates.
InvalidatedOnSuccess(kind) == {"clients", "clientStats"}

\* A mutation of ShouldDelete: the answer is not looked at.
ShouldDelete_Always(answer) == TRUE

\* handleDeleteClient / handleDelete: whether the DELETE is sent, given
\* the answer of the confirmation dialog.
ShouldDelete(answer) == answer

\* isOpen of a ClientForm instance, from the page's state.
FormOpenAt(f, add, editing) == IF f = "add" THEN add ELSE editing # <<>>

\* The confirmation dialog last shown: for a "client" or a "meeting", the
\* item's id and the user's answer.
NoConfirm == [item |-> "none", id |-> 0, answer |-> FALSE]

\* The two queries before the page is mounted, while they load for the
\* first time, and loaded from the clients srv.
CqUnmounted == [q \in ClientQueries |-> QueryStart("idle", "idle")]
CqLoading == [q \in ClientQueries |-> QueryStart("loading", "sent")]
CqLoaded(srv) ==
    [q \in ClientQueries |->
        [QueryStart("success", "idle") EXCEPT !.data = <<ServerView(q, srv)>>]]

\* The timeout of the notification effect: none pending, or one pending that
\* was started for the notification set last ("current") or for one set
\* before it ("earlier").
NoTimer == "none"

\* setNotification(msg) and the effect on [notification].  A state that does
\* not change causes no render, so the effect does not run: neither its
\* cleanup (clearTimeout) nor a new setTimeout.
SetNotification(msg) ==
    /\ notification' = msg
    /\ timer' = IF msg = notification
                THEN (IF timer = NoTimer THEN NoTimer ELSE "earlier")
                ELSE (IF msg = "" THEN NoTimer ELSE "current")

ClientsStart(srv, nid, cq0, add, editing, fd) ==
    /\ serverClients = srv
    /\ nextClientId = nid
    /\ cq = cq0
    /\ showAddModal = add
    /\ editingClient = editing
    /\ selectedClient = <<>>
    /\ notification = ""
    /\ timer = NoTimer
    /\ forms = [f \in {"add", "edit"} |->
                   [formData |-> IF FormOpenAt(f, add, editing) THEN fd
                                 ELSE InitialFormData(<<>>),
                    errors |-> NoErrors, isSubmitting |-> FALSE]]
    /\ mutations = {}
    /\ lastConfirm = NoConfirm

\* The Clients page is not mounted.
ClientsIdle == ClientsStart({}, 1, CqUnmounted, FALSE, <<>>, EmptyForm)

\* The Clients page has mounted: both queries are fetching, both ClientForm
\* instances are mounted (the Edit one with client undefined) and closed.
ClientsInit == ClientsStart({}, MaxClientId, CqLoading, FALSE, <<>>, EmptyForm)

\* The clients the page lists.
Listed == IF cq["clients"].data = <<>> THEN {} ELSE cq["clients"].data[1]

NoModal == ~showAddModal /\ editingClient = <<>> /\ selectedClient = <<>>

\* isOpen and client of a ClientForm instance.
FormOpen(f) == FormOpenAt(f, showAddModal, editingClient)
FormClient(f) == IF f = "add" THEN <<>> ELSE editingClient

pageVars == <<showAddModal, editingClient, selectedClient, notification, timer>>
backendVars == <<serverClients, nextClientId>>
otherVars == <<authVars, taskVars, queryVars, createVars, listVars, portalVars>>

\* The backend answers the request of query q.
ClientsServe(q) ==
    /\ cq[q].pc = "sent"
    /\ cq' = [cq EXCEPT ![q].pc = "resp",
                        ![q].items = <<ServerView(q, serverClients)>>]
    /\ UNCHANGED <<backendVars, pageVars, forms, mutations, lastConfirm>>
    /\ UNCHANGED <<otherVars, meetingVars>>

\* The response of query q arrives.
ClientsFetchOk(q) ==
    /\ cq[q].pc = "resp"
    /\ cq' = [cq EXCEPT ![q] = [status |-> "success", data |-> cq[q].items,
                                invalidated |-> FALSE, pc |-> "idle",
                                items |-> <<>>]]
    /\ UNCHANGED <<backendVars, pageVars, forms, mutations, lastConfirm>>
    /\ UNCHANGED <<otherVars, meetingVars>>

\* The request of query q fails for good: the data stays as it was.
ClientsFetchFail(q) ==
    /\ cq[q].pc # "idle"
    /\ cq' = [cq EXCEPT ![q].status = "error", ![q].pc = "idle", ![q].items = <<>>]
    /\ UNCHANGED <<backendVars, pageVars, forms, mutations, lastConfirm>>
    /\ UNCHANGED <<otherVars, meetingVars>>

\* The Add Client buttons: setShowAddModal(true).
OpenAdd ==
    /\ NoModal
    /\ showAddModal' = TRUE
    /\ UNCHANGED <<editingClient, selectedClient, notification, timer>>
    /\ UNCHANGED <<backendVars, cq, forms, mutations, lastConfirm>>
    /\ UNCHANGED <<otherVars, meetingVars>>

\* The eye button of a listed client: setSelectedClient(client).
ViewClient(c) ==
    /\ NoModal
    /\ c \in Listed
    /\ selectedClient' = <<c>>
    /\ UNCHANGED <<showAddModal, editingClient, notification, timer>>
    /\ UNCHANGED <<backendVars, cq, forms, mutations, lastConfirm>>
    /\ UNCHANGED <<otherVars, meetingVars>>

\* The detail view's x and Close: setSelectedClient(null).
CloseDetail ==
    /\ selectedClient # <<>>
    /\ selectedClient' = <<>>
    /\ UNCHANGED <<showAddModal, editingClient, notification, timer>>
    /\ UNCHANGED <<backendVars, cq, forms, mutations, lastConfirm>>
    /\ UNCHANGED <<otherVars, meetingVars>>

\* The pencil button of a listed client: setEditingClient(client).  The
\* Edit ClientForm is already mounted; its formData is not touched.
EditClick(c) ==
    /\ NoModal
    /\ c \in Listed
    /\ editingClient' = <<c>>
    /\ UNCHANGED <<showAddModal, selectedClient, notification, timer>>
    /\ UNCHANGED <<backendVars, cq, forms, mutations, lastConfirm>>
    /\ UNCHANGED <<otherVars, meetingVars>>

\* Edit Client in the detail view.
EditFromDetail ==
    /\ selectedClient # <<>>
    /\ editingClient' = selectedClient
    /\ selectedClient' = <<>>
    /\ UNCHANGED <<showAddModal, notification, timer>>
    /\ UNCHANGED <<backendVars, cq, forms, mutations, lastConfirm>>
    /\ UNCHANGED <<otherVars, meetingVars>>

\* onClose of form f, as the page passes it.
OnClose(f) ==
    IF f = "add" THEN showAddModal' = FALSE /\ UNCHANGED editingClient
    ELSE editingClient' = <<>> /\ UNCHANGED showAddModal

\* The form's x button (Cancel is disabled while submitting).
CloseForm(f) ==
    /\ FormOpen(f)
    /\ OnClose(f)
    /\ UNCHANGED <<selectedClient, notification, timer>>
    /\ UNCHANGED <<backendVars, cq, forms, mutations, lastConfirm>>
    /\ UNCHANGED <<otherVars, meetingVars>>

\* handleInputChange(field, value)
InputChange(f, field, value) ==
    /\ FormOpen(f)
    /\ forms[f].formData[field] # value
    /\ forms' = [forms EXCEPT
          ![f].formData = [@ EXCEPT ![field] = value],
          ![f].errors = IF field \in DOMAIN @ /\ @[field] # ""
                        THEN [@ EXCEPT ![field] = ""] ELSE @]
    /\ UNCHANGED <<backendVars, cq, pageVars, mutations, lastConfirm>>
    /\ UNCHANGED <<otherVars, meetingVars>>

\* The request handleSubmit sends for form f holding formData fd.
SubmitRequest(f, fd) ==
    LET c == FormClient(f)
    IN  [kind |-> IF c # <<>> /\ c[1].id # 0 THEN "update" ELSE "create",
         form |-> f, id |-> IF c # <<>> THEN c[1].id ELSE 0, data |-> fd]

\* handleSubmit (the submit button is disabled while isSubmitting).
HandleSubmit(f) ==
    LET fd == forms[f].formData
        newErrors == ValidateForm(fd)
    IN  /\ FormOpen(f)
        /\ ~forms[f].isSubmitting
        /\ IF newErrors # NoErrors
           THEN /\ forms' = [forms EXCEPT ![f].errors = newErrors,
                                          ![f].isSubmitting = FALSE]
                /\ UNCHANGED mutations
           ELSE /\ Cardinality(mutations) < MaxInFlight
                /\ forms' = [forms EXCEPT ![f].errors = newErrors,
                                          ![f].isSubmitting = TRUE]
                /\ mutations' = mutations \cup {SubmitRequest(f, fd)}
        /\ UNCHANGED <<backendVars, cq, pageVars, lastConfirm>>
        /\ UNCHANGED <<otherVars, meetingVars>>

\* handleDeleteClient(client), with the answer given to window.confirm.
HandleDeleteClient(c, answer) ==
    /\ NoModal
    /\ c \in Listed
    /\ lastConfirm' = [item |-> "client", id |-> c.id, answer |-> answer]
    /\ IF ShouldDelete(answer)
       THEN /\ Cardinality(mutations) < MaxInFlight
            /\ mutations' = mutations \cup
                  {[kind |-> "delete", form |-> "none", id |-> c.id, data |-> EmptyForm]}
       ELSE UNCHANGED mutations
    /\ UNCHANGED <<backendVars, cq, pageVars, forms>>
    /\ UNCHANGED <<otherVars, meetingVars>>

\* The backend: whether it carries request m out, and the clients after it.
ServerAccepts(m, srv, nid) ==
    IF m.kind = "create" THEN nid <= MaxClientId
    ELSE \E c \in srv : c.id = m.id

ServerMutate(m, srv, nid) ==
    IF m.kind = "create" THEN srv \cup {ClientOf(nid, m.data)}
    ELSE IF m.kind = "update"
    THEN {IF c.id = m.id THEN ClientOf(c.id, m.data) ELSE c : c \in srv}
    ELSE {c \in srv : c.id # m.id}

\* Request m succeeds: onSuccess of its mutation, then handleSubmit's
\* finally.
MutationOk(m) ==
    /\ m \in mutations
    /\ ServerAccepts(m, serverClients, nextClientId)
    /\ serverClients' = ServerMutate(m, serverClients, nextClientId)
    /\ nextClientId' = IF m.kind = "create" THEN nextClientId + 1 ELSE nextClientId
    /\ mutations' = mutations \ {m}
    /\ cq' = Invalidate(cq, InvalidatedOnSuccess(m.kind))
    /\ UNCHANGED lastConfirm
    /\ IF m.kind = "delete"
       THEN UNCHANGED <<pageVars, forms>>
       ELSE /\ SetNotification(IF m.kind = "create"
                               THEN "Client created successfully!"
                               ELSE "Client updated successfully!")
            /\ OnClose(m.form)
            /\ forms' = [forms EXCEPT
                  ![m.form].formData = IF m.kind = "create" THEN EmptyForm ELSE @,
                  ![m.form].isSubmitting = FALSE]
            /\ UNCHANGED selectedClient
    /\ UNCHANGED <<otherVars, meetingVars>>

\* Request m fails, with or without error.response.data.detail: onError,
\* then handleSubmit's finally.  deleteClientMutation has no onError.
MutationFail(m, detail) ==
    /\ m \in mutations
    /\ mutations' = mutations \ {m}
    /\ IF m.kind = "delete"
       THEN UNCHANGED forms
       ELSE forms' = [forms EXCEPT
               ![m.form].errors = IF detail THEN [f \in {"submit"} |-> "detail"] ELSE @,
               ![m.form].isSubmitting = FALSE]
    /\ UNCHANGED <<backendVars, cq, pageVars, lastConfirm>>
    /\ UNCHANGED <<otherVars, meetingVars>>

\* The x button of the notification.
ClearNotification ==
    /\ notification # ""
    /\ SetNotification("")
    /\ UNCHANGED <<showAddModal, editingClient, selectedClient>>
    /\ UNCHANGED <<backendVars, cq, forms, mutations, lastConfirm>>
    /\ UNCHANGED <<otherVars, meetingVars>>

\* The 3 second timeout of the notification effect fires.
NotificationTimeout ==
    /\ timer # NoTimer
    /\ SetNotification("")
    /\ UNCHANGED <<showAddModal, editingClient, selectedClient>>
    /\ UNCHANGED <<backendVars, cq, forms, mutations, lastConfirm>>
    /\ UNCHANGED <<otherVars, meetingVars>>

\* What is typed into the forms.
ClientsInputs(f) ==
    {<<"name", IF f = "add" THEN NameA ELSE NameB>>, <<"email", EmailA>>}

\* The form as a user can have filled it in: every text up to a length.
MaxNameLen == 1
MaxEmailLen == 5
MaxPhoneLen == 2
NameChars == {"a", " "}
EmailChars == {"a", "@", ".", " "}
PhoneChars == {"+", "1", "0", "-"}

Texts(chars, n) == UNION {[1..k -> chars] : k \in 0..n}

FormInputs ==
    {MkData(n, e, ph) : n \in Texts(NameChars, MaxNameLen),
                        e \in Texts(EmailChars, MaxEmailLen),
                        ph \in Texts(PhoneChars, MaxPhoneLen)}

\* The Add form, or the Edit form for Client1, is open and filled in.
FormInit ==
    \E f \in {"add", "edit"}, fd \in FormInputs :
        ClientsStart({Client1}, 2, CqLoaded({Client1}), f = "add",
                     IF f = "edit" THEN <<Client1>> ELSE <<>>, fd)

FormNext ==
    \/ \E f \in {"add", "edit"} : HandleSubmit(f)
    \/ \E m \in mutations : MutationOk(m)
    \/ \E m \in mutations, detail \in BOOLEAN : MutationFail(m, detail)

\* The Clients page with two clients to delete.
DeleteInit == ClientsStart({Client1, Client2}, 3, CqLoading, FALSE, <<>>, EmptyForm)

\* The options of the Onboarding Stage select, in their order.
StageOrder == <<"initial", "discovery", "proposal", "contract", "onboarding",
                "active", "completed">>
StageRank(st) == CHOOSE i \in 1..Len(StageOrder) : StageOrder[i] = st

\* Editing the one client of the page, which is at stage discovery.
StageInit == ClientsStart({Client1}, 2, CqLoaded({Client1}), FALSE, <<>>, EmptyForm)

\* The stages picked in the select: the first and the last option.
StageChoices == {StageOrder[1], StageOrder[Len(StageOrder)]}

StageInputs ==
    {<<"name", NameB>>, <<"email", EmailA>>}
    \cup {<<"onboarding_stage", st>> : st \in StageChoices}

StageNext ==
    \/ \E q \in ClientQueries : ClientsServe(q)
    \/ \E q \in ClientQueries : ClientsFetchOk(q)
    \/ \E q \in ClientQueries : ClientsFetchFail(q)
    \/ \E c \in Listed : EditClick(c)
    \/ CloseForm("edit")
    \/ \E i \in StageInputs : InputChange("edit", i[1], i[2])
    \/ HandleSubmit("edit")
    \/ \E m \in mutations : MutationOk(m)
    \/ \E m \in mutations, detail \in BOOLEAN : MutationFail(m, detail)
    \/ ClearNotification
    \/ NotificationTimeout

ClientsNext ==
    \/ \E q \in ClientQueries : ClientsServe(q)
    \/ \E q \in ClientQueries : ClientsFetchOk(q)
    \/ \E q \in ClientQueries : ClientsFetchFail(q)
    \/ OpenAdd
    \/ \E c \in Listed : ViewClient(c)
    \/ CloseDetail
    \/ \E c \in Listed : EditClick(c)
    \/ EditFromDetail
    \/ \E f \in {"add", "edit"} : CloseForm(f)
    \/ \E f \in {"add", "edit"} : \E i \in ClientsInputs(f) : InputChange(f, i[1], i[2])
    \/ \E f \in {"add", "edit"} : HandleSubmit(f)
    \/ \E c \in Listed : HandleDeleteClient(c, TRUE)
    \/ \E m \in mutations : MutationOk(m)
    \/ \E m \in mutations, detail \in BOOLEAN : MutationFail(m, detail)
    \/ ClearNotification
    \/ NotificationTimeout

(***************************************************************************)
(* MeetingManagement: the meetings list and handleDelete.                  *)
(***************************************************************************)
NumMeetings == 1
MeetingIds == 1..NumMeetings

MeetingsStart(fetching) ==
    /\ serverMeetings = MeetingIds
    /\ meetings = {}
    /\ meetingsFetch = fetching
    /\ meetingError = NULL
    /\ meetingDeletes = {}

\* MeetingManagement is not mounted.
MeetingsIdle == MeetingsStart({})

\* fetchMeetings has been called (by the mount effect).
MeetingsInit == MeetingsStart({[pc |-> "sent", items |-> {}]})

\* The backend answers a list request.
MeetingsServe(r) ==
    /\ r \in meetingsFetch
    /\ r.pc = "sent"
    /\ meetingsFetch' = (meetingsFetch \ {r}) \cup {[pc |-> "resp", items |-> serverMeetings]}
    /\ UNCHANGED <<serverMeetings, meetings, meetingError, meetingDeletes>>
    /\ UNCHANGED <<otherVars, clientVars>>

\* fetchMeetings: the response arrives, setMeetings(data).
MeetingsFetchOk(r) ==
    /\ r \in meetingsFetch
    /\ r.pc = "resp"
    /\ meetingsFetch' = meetingsFetch \ {r}
    /\ meetings' = r.items
    /\ UNCHANGED <<serverMeetings, meetingError, meetingDeletes>>
    /\ UNCHANGED <<otherVars, clientVars>>

\* fetchMeetings: the request fails, setError.
MeetingsFetchFail(r) ==
    /\ r \in meetingsFetch
    /\ meetingsFetch' = meetingsFetch \ {r}
    /\ meetingError' = "Failed to fetch meetings"
    /\ UNCHANGED <<serverMeetings, meetings, meetingDeletes>>
    /\ UNCHANGED <<otherVars, clientVars>>

\* handleDelete(id), with the answer given to confirm.
HandleDeleteMeeting(id, answer) ==
    /\ id \in meetings
    /\ lastConfirm' = [item |-> "meeting", id |-> id, answer |-> answer]
    /\ IF ShouldDelete(answer)
       THEN /\ Cardinality(meetingDeletes) < MaxInFlight
            /\ meetingDeletes' = meetingDeletes \cup {id}
       ELSE UNCHANGED meetingDeletes
    /\ UNCHANGED <<serverMeetings, meetings, meetingsFetch, meetingError>>
    /\ UNCHANGED <<backendVars, cq, pageVars, forms, mutations>>
    /\ UNCHANGED otherVars

\* The DELETE succeeds: await fetchMeetings().
MeetingDeleteOk(id) ==
    /\ id \in meetingDeletes
    /\ id \in serverMeetings
    /\ serverMeetings' = serverMeetings \ {id}
    /\ meetingDeletes' = meetingDeletes \ {id}
    /\ meetingsFetch' = meetingsFetch \cup {[pc |-> "sent", items |-> {}]}
    /\ UNCHANGED <<meetings, meetingError>>
    /\ UNCHANGED <<otherVars, clientVars>>

\* The DELETE fails: setError.
MeetingDeleteFail(id) ==
    /\ id \in meetingDeletes
    /\ meetingDeletes' = meetingDeletes \ {id}
    /\ meetingError' = "Failed to delete meeting"
    /\ UNCHANGED <<serverMeetings, meetings, meetingsFetch>>
    /\ UNCHANGED <<otherVars, clientVars>>

DeleteNext ==
    \/ \E q \in ClientQueries : ClientsServe(q)
    \/ \E q \in ClientQueries : ClientsFetchOk(q)
    \/ \E q \in ClientQueries : ClientsFetchFail(q)
    \/ \E c \in Listed, answer \in BOOLEAN : HandleDeleteClient(c, answer)
    \/ \E m \in mutations : MutationOk(m)
    \/ \E m \in mutations, detail \in BOOLEAN : MutationFail(m, detail)
    \/ \E r \in meetingsFetch : MeetingsServe(r)
    \/ \E r \in meetingsFetch : MeetingsFetchOk(r)
    \/ \E r \in meetingsFetch : MeetingsFetchFail(r)
    \/ \E id \in meetings, answer \in BOOLEAN : HandleDeleteMeeting(id, answer)
    \/ \E id \in meetingDeletes : MeetingDeleteOk(id)
    \/ \E id \in meetingDeletes : MeetingDeleteFail(id)

(***************************************************************************)
(* Creating a task: the Create Task modal of Tasks.tsx and the Create Task *)
(* form of TaskManagement.  Both are rendered for an admin only; the pages *)
(* here are viewed by one, with the employees list loaded.                 *)
(***************************************************************************)
TaskPages == {"Tasks", "TaskManagement"}

\* The session that shows a page.
SessionOf(pg) == IF pg = "Tasks" THEN "s1" ELSE "s2"

\* The values of the Assign To select: "" (Select Employee) or an id.
AssigneeOptions == {""} \cup {"1", "2"}
TitleInputs == {"", "t"}

\* parseInt(str): <<n>> for a number, <<>> for NaN (serialised as null).
ParseInt(str) ==
    IF str = "1" THEN <<1>> ELSE IF str = "2" THEN <<2>> ELSE <<>>

EmptyTask == [title |-> "", assigned_to_id |-> ""]

\* The body of POST /api/v1/tasks/ built from newTask:
\* { ...newTask, assigned_to_id: parseInt(newTask.assigned_to_id), ... }
CreateBody(nt) == [title |-> nt.title, assigned_to_id |-> ParseInt(nt.assigned_to_id)]

\* Whether the submit handler sends the request:
\* handleCreateTask: if (newTask.title && newTask.assigned_to_id);
\* TaskManagement.createTask has no condition.
CreateGuard(pg, nt) ==
    IF pg = "Tasks" THEN nt.title # "" /\ nt.assigned_to_id # "" ELSE TRUE

CreateInit ==
    /\ newTask = [pg \in TaskPages |-> EmptyTask]
    /\ showCreate = [pg \in TaskPages |-> FALSE]
    /\ creates = {}

createRest == <<authVars, queryVars, clientVars, meetingVars, listVars,
                portalVars>>

\* The Create Task button: setShowCreateModal(true) /
\* setShowCreateForm(!showCreateForm); Cancel closes.
ToggleCreate(pg) ==
    /\ showCreate' = [showCreate EXCEPT ![pg] = ~@]
    /\ UNCHANGED <<newTask, creates, taskVars, createRest>>

\* onChange of the title input and of the Assign To select.
SetNewTask(pg, field, value) ==
    /\ showCreate[pg]
    /\ newTask[pg][field] # value
    /\ newTask' = [newTask EXCEPT ![pg][field] = value]
    /\ UNCHANGED <<showCreate, creates, taskVars, createRest>>

\* handleCreateTask (the submit button is disabled while the mutation is
\* pending) / createTask.
SubmitCreate(pg) ==
    /\ showCreate[pg]
    /\ \A r \in creates : r.page # pg
    /\ IF CreateGuard(pg, newTask[pg])
       THEN creates' = creates \cup {[page |-> pg, body |-> CreateBody(newTask[pg])]}
       ELSE UNCHANGED creates
    /\ UNCHANGED <<newTask, showCreate, taskVars, createRest>>

\* The POST succeeds: the form is closed and reset and the task list is
\* fetched again (invalidateQueries / fetchTasks(); fetchStats()).
CreateOk(r) ==
    /\ r \in creates
    /\ creates' = creates \ {r}
    /\ showCreate' = [showCreate EXCEPT ![r.page] = FALSE]
    /\ newTask' = [newTask EXCEPT ![r.page] = EmptyTask]
    /\ tasksFetch' = [tasksFetch EXCEPT ![SessionOf(r.page)] = FetchSent]
    /\ UNCHANGED <<taskStatus, taskAssignee, pageOf, tasksData, inflight,
                   taskError, taskLoading, lastFetch, lastPut>>
    /\ UNCHANGED createRest

\* The POST fails: TaskManagement sets error, createTaskMutation has no
\* onError.
CreateFail(r) ==
    /\ r \in creates
    /\ creates' = creates \ {r}
    /\ taskError' = [taskError EXCEPT ![SessionOf(r.page)] =
                        IF r.page = "TaskManagement"
                        THEN "Failed to create task" ELSE @]
    /\ UNCHANGED <<taskStatus, taskAssignee, pageOf, tasksData, tasksFetch,
                   inflight, taskLoading, lastFetch, lastPut>>
    /\ UNCHANGED <<newTask, showCreate, createRest>>

CreateNext ==
    \/ \E pg \in TaskPages : ToggleCreate(pg)
    \/ \E pg \in TaskPages, v \in TitleInputs : SetNewTask(pg, "title", v)
    \/ \E pg \in TaskPages, v \in AssigneeOptions : SetNewTask(pg, "assigned_to_id", v)
    \/ \E pg \in TaskPages : SubmitCreate(pg)
    \/ \E r \in creates : CreateOk(r)
    \/ \E r \in creates : CreateFail(r)

(***************************************************************************)
(* The list of the Clients page: the search term, the status filter, the   *)
(* page, and React Query's cache of GET /clients/ keyed by                 *)
(* ['clients', searchTerm, statusFilter, currentPage, perPage].            *)
(***************************************************************************)
MaxPage == 2
MaxListInFlight == 2

PerPage == 10

SearchTerms == {"", "a"}
StatusFilters == {"", "active"}
ListPages == 1..MaxPage
ListKeys == [search : SearchTerms, status : StatusFilters, page : ListPages]

ListKey(s, st, p) == [search |-> s, status |-> st, page |-> p]

\* The URLSearchParams of the queryFn: search and status are appended only
\* when they are not empty.
Params(k) ==
    [page |-> k.page, per_page |-> PerPage,
     search |-> IF k.search # "" THEN <<k.search>> ELSE <<>>,
     status |-> IF k.status # "" THEN <<k.status>> ELSE <<>>]

\* The response to the request of key k: the page asked for, out of MaxPage
\* pages.
PagedResponse(k) ==
    [request |-> Params(k), page |-> k.page, pages |-> MaxPage,
     has_next |-> k.page < MaxPage, has_prev |-> k.page > 1]

\* A mutation of ResetPage: the page is kept.
ResetPage_Keep(p) == p

\* The effect on [searchTerm, statusFilter]: setCurrentPage(1).
ResetPage(p) == 1

ListStart(reqs) ==
    /\ searchTerm = ""
    /\ statusFilter = ""
    /\ currentPage = 1
    /\ pageCache = [k \in ListKeys |-> <<>>]
    /\ pageRequests = reqs

\* The Clients page is not mounted.
ListIdle == ListStart({})

\* The Clients page is mounted and its first list request is on its way.
ListInit == ListStart({ListKey("", "", 1)})

\* clientsResponse: the data of the query key of this render.
Displayed == pageCache[ListKey(searchTerm, statusFilter, currentPage)]

listRest == <<authVars, taskVars, queryVars, clientVars, meetingVars,
              createVars, portalVars>>

\* The search term or the status filter changes to (s, st).  The render with
\* the new value observes the key with the page as it is, and its effects
\* start that key's request and call setCurrentPage(1); the render that
\* follows observes the key with page 1.
FilterChanged(s, st) ==
    /\ searchTerm' = s
    /\ statusFilter' = st
    /\ currentPage' = ResetPage(currentPage)
    /\ pageRequests' = pageRequests
                         \cup {ListKey(s, st, currentPage),
                               ListKey(s, st, ResetPage(currentPage))}
    /\ Cardinality(pageRequests') <= MaxListInFlight
    /\ UNCHANGED pageCache
    /\ UNCHANGED listRest

\* The search input's onChange.
SetSearchTerm(s) ==
    /\ s # searchTerm
    /\ FilterChanged(s, statusFilter)

\* The status select's onChange.
SetStatusFilter(st) ==
    /\ st # statusFilter
    /\ FilterChanged(searchTerm, st)

\* A pagination button: shown when the response has more than one page;
\* First and Previous need has_prev, Next and Last need has_next.
SetCurrentPage(p) ==
    /\ Displayed # <<>>
    /\ Displayed[1].pages > 1
    /\ p \in 1..Displayed[1].pages
    /\ p # currentPage
    /\ p < Displayed[1].page => Displayed[1].has_prev
    /\ p > Displayed[1].page => Displayed[1].has_next
    /\ currentPage' = p
    /\ pageRequests' = pageRequests \cup {ListKey(searchTerm, statusFilter, p)}
    /\ Cardinality(pageRequests') <= MaxListInFlight
    /\ UNCHANGED <<searchTerm, statusFilter, pageCache>>
    /\ UNCHANGED listRest

\* The request of key k is answered: the data goes to the cache under k.
PageFetchOk(k) ==
    /\ k \in pageRequests
    /\ pageRequests' = pageRequests \ {k}
    /\ pageCache' = [pageCache EXCEPT ![k] = <<PagedResponse(k)>>]
    /\ UNCHANGED <<searchTerm, statusFilter, currentPage>>
    /\ UNCHANGED listRest

\* The request of key k has failed for good: the key keeps the data it had.
PageFetchFail(k) ==
    /\ k \in pageRequests
    /\ pageRequests' = pageRequests \ {k}
    /\ UNCHANGED <<searchTerm, statusFilter, currentPage, pageCache>>
    /\ UNCHANGED listRest

ListNext ==
    \/ \E s \in SearchTerms : SetSearchTerm(s)
    \/ \E st \in StatusFilters : SetStatusFilter(st)
    \/ \E p \in ListPages : SetCurrentPage(p)
    \/ \E k \in ListKeys : PageFetchOk(k)
    \/ \E k \in ListKeys : PageFetchFail(k)

(***************************************************************************)
(* ClientPortal: the form a client submits.                                *)
(***************************************************************************)
PortalInit ==
    /\ isSubmitting = FALSE
    /\ isSubmitted = FALSE
    /\ portalPosts = 0

portalRest == <<authVars, taskVars, queryVars, clientVars, meetingVars,
                createVars, listVars>>

\* handleSubmit up to its await: the form is shown until isSubmitted, and
\* its submit button is disabled while isSubmitting.
PortalSubmit ==
    /\ ~isSubmitted
    /\ ~isSubmitting
    /\ isSubmitting' = TRUE
    /\ portalPosts' = portalPosts + 1
    /\ UNCHANGED isSubmitted
    /\ UNCHANGED portalRest

\* The POST is answered with response.ok: setIsSubmitted(true), finally.
PortalOk ==
    /\ portalPosts > 0
    /\ portalPosts' = portalPosts - 1
    /\ isSubmitted' = TRUE
    /\ isSubmitting' = FALSE
    /\ UNCHANGED portalRest

\* The POST fails or is answered without response.ok: catch, finally.
PortalFail ==
    /\ portalPosts > 0
    /\ portalPosts' = portalPosts - 1
    /\ isSubmitting' = FALSE
    /\ UNCHANGED isSubmitted
    /\ UNCHANGED portalRest

(***************************************************************************)
(* Requests after a failure: Dashboard's query, TaskManagement's list      *)
(* request and ClientPortal's submit side by side.                         *)
(***************************************************************************)
\* Dashboard is mounted and its query is fetching; EmployeeProfile is not
\* mounted.
DashboardInit ==
    /\ qStatus = [q \in Queries |-> IF q = "dashboard-stats" THEN "loading" ELSE "idle"]
    /\ qData = [q \in Queries |-> UNDEFINED]
    /\ qFailures = [q \in Queries |-> 0]
    /\ qLastFailed = [q \in Queries |-> FALSE]

RetryNext ==
    \/ \E q \in Queries : QueryOk(q)
    \/ \E q \in Queries : QueryFail(q)
    \/ TasksServe(SessionOf("TaskManagement"))
    \/ TasksFetchOk(SessionOf("TaskManagement"))
    \/ TasksFetchFail(SessionOf("TaskManagement"))
    \/ TasksRefetch(SessionOf("TaskManagement"))
    \/ PortalSubmit
    \/ PortalOk
    \/ PortalFail

(***************************************************************************)
(* The specifications.  Each runs one part of the application and leaves   *)
(* the others at rest.                                                     *)
(***************************************************************************)
AuthIdle == AuthStart(NULL, "/login")

InitAuth == AuthInit /\ TasksIdle /\ QueriesIdle /\ ClientsIdle /\ MeetingsIdle /\ CreateInit /\ ListIdle /\ PortalInit

SpecAuth == InitAuth /\ [][AuthNext]_vars

\* The mount effect runs once the provider has mounted, and the request it
\* sends is answered or fails.
SpecAuthLive ==
    /\ InitAuth
    /\ [][AuthNext]_vars
    /\ WF_vars(MountEffect)
    /\ WF_vars(MountVerifyOk)
    /\ WF_vars(MountVerifyFail)

InitTasks == AuthIdle /\ TasksInit /\ QueriesIdle /\ ClientsIdle /\ MeetingsIdle /\ CreateInit /\ ListIdle /\ PortalInit

SpecTasks == InitTasks /\ [][TasksNext]_vars

SpecUpdate == InitTasks /\ [][UpdateNext]_vars

InitFetch == AuthIdle /\ TasksIdle /\ QueriesInit /\ ClientsIdle /\ MeetingsIdle /\ CreateInit /\ ListIdle /\ PortalInit

SpecFetch == InitFetch /\ [][FetchNext]_vars

InitClients == AuthIdle /\ TasksIdle /\ QueriesIdle /\ ClientsInit /\ MeetingsIdle /\ CreateInit /\ ListIdle /\ PortalInit

SpecClients == InitClients /\ [][ClientsNext]_vars

InitForm == AuthIdle /\ TasksIdle /\ QueriesIdle /\ FormInit /\ MeetingsIdle /\ CreateInit /\ ListIdle /\ PortalInit

SpecForm == InitForm /\ [][FormNext]_vars

InitDelete == AuthIdle /\ TasksIdle /\ QueriesIdle /\ DeleteInit /\ MeetingsInit /\ CreateInit /\ ListIdle /\ PortalInit

SpecDelete == InitDelete /\ [][DeleteNext]_vars

InitStage ==
    AuthIdle /\ TasksIdle /\ QueriesIdle /\ StageInit /\ MeetingsIdle /\ CreateInit /\ ListIdle /\ PortalInit

SpecStage == InitStage /\ [][StageNext]_vars

InitRetry ==
    AuthIdle /\ TasksIdle /\ DashboardInit /\ ClientsIdle /\ MeetingsIdle /\ CreateInit /\ ListIdle /\ PortalInit

SpecRetry == InitRetry /\ [][RetryNext]_vars

InitList ==
    AuthIdle /\ TasksIdle /\ QueriesIdle /\ ClientsIdle /\ MeetingsIdle /\ CreateInit /\ ListInit /\ PortalInit

SpecList == InitList /\ [][ListNext]_vars

InitCreate ==
    AuthIdle /\ TasksIdle /\ QueriesIdle /\ ClientsIdle /\ MeetingsIdle /\ CreateInit /\ ListIdle /\ PortalInit

SpecCreate == InitCreate /\ [][CreateNext]_vars

(***************************************************************************)
(* C1.  Task status only moves forward along todo -> in_progress ->        *)
(* review -> completed/blocked, whatever the interleaving of clicks and    *)
(* refetches: no status update request asks for a status that is earlier   *)
(* in that order than the status the backend stores for the task when the  *)
(* request is sent, so a task is never moved back.  (The claim asks for a  *)
(* strictly later status; already this weaker reading fails.)              *)
(***************************************************************************)
C1_StatusOnlyMovesForward ==
    (lastPut.task # 0 /\ "status" \in DOMAIN lastPut.body)
        => Rank(lastPut.body["status"]) >= Rank(lastPut.stored)

(***************************************************************************)
(* C10.  An update changes only targeted fields: the body of a task update *)
(* request holds the status field only when a status was given (and then   *)
(* that status), actual_hours only when it was given (and then that        *)
(* value), and no other task field.  This holds of the request last sent   *)
(* and of every request in flight.                                         *)
(***************************************************************************)
C10_UpdateBodyOnlyTargetedFields ==
    /\ lastPut.task # 0 =>
          /\ DOMAIN lastPut.body \subseteq {"status", "actual_hours"}
          /\ "status" \in DOMAIN lastPut.body =>
                (lastPut.status # UNDEFINED /\ lastPut.body["status"] = lastPut.status)
          /\ "actual_hours" \in DOMAIN lastPut.body =>
                (lastPut.hours # <<>> /\ lastPut.body["actual_hours"] = lastPut.hours[1])
    /\ \A s \in Sessions : \A r \in inflight[s] :
          DOMAIN r.body \subseteq {"status", "actual_hours"}

\* Tasks.tsx sent an update given actual_hours 0 and no status: the body
\* holds actual_hours alone.
C10_Witness ==
    /\ lastPut.task # 0
    /\ lastPut.page = "Tasks"
    /\ lastPut.status = UNDEFINED
    /\ lastPut.hours = <<0>>
    /\ DOMAIN lastPut.body = {"actual_hours"}

(***************************************************************************)
(* C3.  Protected routes: a page under the catch-all route is rendered     *)
(* only while AuthContext.user is non-null; while loading is true a        *)
(* protected location shows only the spinner; and with loading false and   *)
(* no user the router is never left at a protected location: it has        *)
(* navigated to /login.                                                    *)
(***************************************************************************)
C3_ProtectedRoutes ==
    /\ view = "page" => user # NoUser
    /\ view = "page" => path \notin PublicPaths
    /\ (path \notin PublicPaths /\ loading) => view = "spinner"
    /\ (~loading /\ user = NoUser) => (path \in PublicPaths /\ view \in {"login", "portal"})
    /\ (path \notin PublicPaths /\ ~loading) => view = "page"

\* A signed-in user is shown the Tasks page after the initial load.
C3_Witness ==
    /\ view = "page"
    /\ path = "/tasks"
    /\ user # NoUser
    /\ ~loading

(***************************************************************************)
(* C4.  Role-based access control: the admin-only controls of every task   *)
(* page and of Employee Management are available if and only if the role   *)
(* of AuthContext's user is 'admin', the fetch-based TaskManagement page   *)
(* included.                                                               *)
(***************************************************************************)
C4_AdminControlsIffAdminRole ==
    /\ (view = "page" /\ path = "/tasks") =>
           (TasksAdminControls(user) <=> user.role = "admin")
    /\ (view = "page" /\ path = "/employees") =>
           (EmployeeManagementBody(user) <=> user.role = "admin")
    /\ tmMounted => (tmIsAdmin <=> user.role = "admin")
    /\ \A r \in sent :
           r.endpoint \in {"/tasks/employees/list", "/users/employees"}
               => user.role = "admin"
    /\ (tmMounted /\ user.role = "admin"
           /\ \E r \in sent : r.by = "TaskManagement")
           => \E r \in sent : r.endpoint = "/tasks/employees/list"

(***************************************************************************)
(* C5.  Every authenticated request sent while a user is logged in carries *)
(* as its bearer token the access_token login stored, and never a missing  *)
(* (null) token; the fetch-based pages included.                           *)
(***************************************************************************)
C5_RequestsCarryStoredToken ==
    \A r \in sent : r.loggedIn => (r.bearer = r.session /\ r.bearer # NULL)

(***************************************************************************)
(* C2.  As the claim states it: once a request of a page has failed, the   *)
(* data the page displays is the fixed mock/placeholder value, and the     *)
(* page is in no error state and shows no empty or not-found view.         *)
(***************************************************************************)
C2_FailureFallsBackToMock ==
    /\ \A q \in Queries : (~IsLoading(q) /\ qLastFailed[q]) =>
          (qData[q] = MOCK /\ qStatus[q] # "error")
    /\ qLastFailed["employee"] => EmployeeProfileView # "Employee not found"
    /\ \A s \in Sessions : pageOf[s] = "TaskManagement" => taskError[s] = NULL

(***************************************************************************)
(* C2, amended.  A failed analytics request of EmployeeProfile (tasks,     *)
(* finance, projects, leads) leaves the query successful with the fixed    *)
(* mock value as its data, and such a query never reaches the error        *)
(* status.  The other requests have no mock data: when the employee        *)
(* request has failed for good the page shows "Employee not found", when   *)
(* the dashboard-stats request has failed for good the cards show 0, and a *)
(* failed list request of TaskManagement sets its error state.             *)
(***************************************************************************)
C2_AnalyticsFallBackToMock ==
    /\ \A q \in AnalyticsQueries :
          /\ qStatus[q] # "error"
          /\ qFailures[q] = 0
          /\ (~IsLoading(q) /\ qLastFailed[q]) =>
                (qStatus[q] = "success" /\ qData[q] = MOCK)
          /\ (~IsLoading(q) /\ ~qLastFailed[q]) => qData[q] = SERVER
    /\ (~IsLoading("employee") /\ qLastFailed["employee"]) =>
          (qStatus["employee"] = "error" /\ EmployeeProfileView = "Employee not found")
    /\ (~IsLoading("dashboard-stats") /\ qLastFailed["dashboard-stats"]) =>
          (qStatus["dashboard-stats"] = "error" /\ DashboardCards = "0")
    /\ \A s \in Sessions :
          (pageOf[s] = "TaskManagement" /\ lastFetch[s] = "failed") =>
             (taskError[s] = "Failed to fetch tasks" /\ ~taskLoading[s])

\* Every kind of failure has happened: an analytics query fell back to its
\* mock data, the employee and dashboard-stats queries ended in error, and
\* TaskManagement's list request failed.
C2_Witness ==
    /\ qLastFailed["employee-task-analytics"]
    /\ qData["employee-task-analytics"] = MOCK
    /\ qLastFailed["employee-lead-analytics"]
    /\ qData["employee-lead-analytics"] = MOCK
    /\ qStatus["employee"] = "error"
    /\ qStatus["dashboard-stats"] = "error"
    /\ lastFetch["s2"] = "failed"

(***************************************************************************)
(* C6.  The Edit Client form is pre-populated: whenever the edit modal is  *)
(* open for a client, each field of the form equals that client's name,    *)
(* email, phone, company, status and onboarding_stage.                     *)
(***************************************************************************)
C6_EditFormPrePopulated ==
    editingClient # <<>> =>
        \A fld \in Fields : forms["edit"].formData[fld] = editingClient[1][fld]

(***************************************************************************)
(* C7.  Client-side validation: handleSubmit sends the create or update    *)
(* request exactly when the name has a non-blank character, the email is   *)
(* non-blank and of the form x@y.z, and the phone is empty or matches the  *)
(* phone pattern once spaces, dashes and parentheses are stripped.         *)
(* Otherwise no request is sent, errors holds a message for exactly the    *)
(* failing fields and isSubmitting is false.  No create or update request  *)
(* in flight carries data that fails these checks.                         *)
(***************************************************************************)
NameValid(fd) == \E k \in 1..Len(fd.name) : fd.name[k] \notin Whitespace
EmailValid(fd) ==
    /\ \E k \in 1..Len(fd.email) : fd.email[k] \notin Whitespace
    /\ EmailPattern(fd.email)
PhoneValid(fd) == fd.phone = <<>> \/ PhonePattern(StripPhone(fd.phone))
FailingFields(fd) ==
    (IF NameValid(fd) THEN {} ELSE {"name"})
    \cup (IF EmailValid(fd) THEN {} ELSE {"email"})
    \cup (IF PhoneValid(fd) THEN {} ELSE {"phone"})

C7_SubmitStep(f) ==
    LET fd == forms[f].formData
    IN  IF FailingFields(fd) = {}
        THEN /\ mutations' = mutations \cup {SubmitRequest(f, fd)}
             /\ SubmitRequest(f, fd) \notin mutations
        ELSE /\ mutations' = mutations
             /\ ~forms'[f].isSubmitting
             /\ DOMAIN forms'[f].errors = FailingFields(fd)
             /\ \A fld \in FailingFields(fd) : forms'[f].errors[fld] # ""

C7_RequestOnlyWhenValid ==
    /\ [](\A m \in mutations :
             m.kind \in {"create", "update"} => FailingFields(m.data) = {})
    /\ [][\A f \in {"add", "edit"} : HandleSubmit(f) => C7_SubmitStep(f)]_vars

\* A submit failed on the phone number alone: its message is shown, the
\* form is not submitting and nothing was sent.
C7_Witness ==
    /\ showAddModal
    /\ DOMAIN forms["add"].errors = {"phone"}
    /\ forms["add"].errors["phone"] # ""
    /\ forms["add"].formData.phone = <<"+", "0">>
    /\ ~forms["add"].isSubmitting
    /\ mutations = {}

(***************************************************************************)
(* C8.  A DELETE request for a client or a meeting is issued only in the   *)
(* step in which the user accepts the confirmation dialog for that same    *)
(* item; when the user declines, no request is sent and the list, the      *)
(* statistics, the error state and the backend are unchanged.              *)
(***************************************************************************)
C8_DeleteOnlyAfterConfirm ==
    [][/\ \A m \in mutations' \ mutations :
             m.kind = "delete" =>
                 lastConfirm' = [item |-> "client", id |-> m.id, answer |-> TRUE]
       /\ \A id \in meetingDeletes' \ meetingDeletes :
             lastConfirm' = [item |-> "meeting", id |-> id, answer |-> TRUE]
       /\ \A c \in Listed :
             HandleDeleteClient(c, FALSE) =>
                 UNCHANGED <<mutations, cq, serverClients, forms, pageVars>>
       /\ \A id \in meetings :
             HandleDeleteMeeting(id, FALSE) =>
                 UNCHANGED <<meetingDeletes, meetings, meetingsFetch,
                             meetingError, serverMeetings>>
      ]_vars

\* The deletion of a meeting was declined and the meeting is still there,
\* after the deletion of client 1 was confirmed and carried out.
C8_Witness ==
    /\ lastConfirm.item = "meeting"
    /\ ~lastConfirm.answer
    /\ lastConfirm.id \in serverMeetings
    /\ meetingDeletes = {}
    /\ Client1 \notin serverClients
    /\ Client2 \in serverClients

(***************************************************************************)
(* C9.  Every successful client create, update or delete invalidates both  *)
(* ['clients'] and ['clientStats'] and so starts their refetch; a failed   *)
(* mutation leaves both queries as they were.  Hence, whenever a query has *)
(* succeeded, is not fetching and is not invalidated, the displayed list   *)
(* and statistics are those of the backend: after a successful delete and  *)
(* the completed refetch the deleted client is no longer listed.           *)
(***************************************************************************)
Fresh(q) == cq[q].status = "success" /\ cq[q].pc = "idle" /\ ~cq[q].invalidated

C9_MutationsInvalidateQueries ==
    /\ [](\A q \in ClientQueries :
             Fresh(q) => cq[q].data = <<ServerView(q, serverClients)>>)
    /\ [][\A m \in mutations :
             /\ MutationOk(m) =>
                   /\ \A q \in ClientQueries : cq'[q].invalidated /\ cq'[q].pc = "sent"
                   /\ m.kind = "delete" => \A c \in serverClients' : c.id # m.id
             /\ \A detail \in BOOLEAN : MutationFail(m, detail) => cq' = cq
       ]_vars

\* A client was created, its deletion confirmed and carried out, and both
\* queries have refetched: the list is empty and the statistics count 0.
C9_Witness ==
    /\ nextClientId > MaxClientId
    /\ serverClients = {}
    /\ lastConfirm = [item |-> "client", id |-> MaxClientId, answer |-> TRUE]
    /\ Fresh("clients") /\ Fresh("clientStats")
    /\ Listed = {}
    /\ cq["clientStats"].data[1].total_clients = 0
    /\ mutations = {}

(***************************************************************************)
(* C16.  AuthProvider start-up terminates on every path: loading           *)
(* eventually becomes false and stays false.  With no token stored no      *)
(* request is sent; a verified token sets user to the response of          *)
(* GET /auth/me; a failed verification removes the token and does not set  *)
(* user, which is null unless a login ran meanwhile.                       *)
(***************************************************************************)
C16_StartupTerminates ==
    /\ <>[](~loading)
    /\ [](loading <=> mountPc # "done")
    /\ []((mountPc # "done" /\ loginAccount = NoUser) => user = NoUser)
    /\ [][/\ MountEffect =>
                IF localStorage["token"] = NULL
                THEN ~loading' /\ sent' \subseteq sent /\ user' = NoUser
                ELSE loading'
          /\ MountVerifyOk => (~loading' /\ user' = UserOf(mountTok))
          /\ MountVerifyFail =>
                (~loading' /\ localStorage'["token"] = NULL /\ user' = user)
         ]_vars

\* Start-up ended on the failure path: the expired token was removed, no
\* user is set and loading is false.
C16_Witness ==
    /\ mountPc = "done"
    /\ mountTok = "expired"
    /\ ~loading
    /\ localStorage["token"] = NULL
    /\ user = NoUser

(***************************************************************************)
(* C17.  The mount-time token verification never destroys a newer          *)
(* session: when the initial GET /auth/me fails after login has stored a   *)
(* token of its own, that token is still in localStorage and the user set  *)
(* by login is kept.                                                       *)
(***************************************************************************)
C17_MountFailureKeepsNewSession ==
    [][(MountVerifyFail /\ loginTok \notin {NULL, mountTok}
           /\ localStorage["token"] = loginTok)
          => (localStorage'["token"] = loginTok /\ user' = user)]_vars

C12_StageOnlyMovesForward ==
    \A m \in mutations : \A c \in serverClients :
        (m.kind = "update" /\ c.id = m.id) =>
            StageRank(m.data.onboarding_stage) >= StageRank(c.onboarding_stage)

(***************************************************************************)
(* C13.  Success notifications auto-dismiss: while the Clients page shows  *)
(* a notification a timeout is pending that will clear it, and that       *)
(* timeout is the one started for the notification set last, never one     *)
(* left over from a notification set earlier.                              *)
(***************************************************************************)
C13_NotificationAutoDismiss == notification # "" => timer = "current"

(***************************************************************************)
(* C15.  On the Clients page a change of the search term or of the status  *)
(* filter resets currentPage to 1 and requests page 1 of the new search    *)
(* term and filter; what the page displays is always the response to the   *)
(* request of its current search term, filter and page, so after such a    *)
(* change it is page 1 of the new results and never a later page.          *)
(***************************************************************************)
C15_FilterChangeResetsPage ==
    /\ [](Displayed # <<>> =>
             Displayed[1].request =
                 Params(ListKey(searchTerm, statusFilter, currentPage)))
    /\ [][(searchTerm' # searchTerm \/ statusFilter' # statusFilter) =>
             /\ currentPage' = 1
             /\ Displayed' # <<>> => Displayed'[1].request.page = 1
             /\ \/ ListKey(searchTerm', statusFilter', 1) \in pageRequests'
                \/ Displayed' # <<>>]_vars

\* The search term changed on page 2: the page is 1, the request of page 2
\* of the new search term is still on its way, and page 1 is displayed.
C15_Witness ==
    /\ searchTerm = "a"
    /\ currentPage = 1
    /\ ListKey("a", statusFilter, 2) \in pageRequests
    /\ pageCache[ListKey("a", statusFilter, 2)] = <<>>
    /\ Displayed # <<>>

(***************************************************************************)
(* C14 as stated.  No retry: after a request has failed no further request *)
(* to its endpoint is sent until the next triggering event; here, a query  *)
(* whose request has just failed has no request in flight.                 *)
(***************************************************************************)
C14_NoRetry ==
    [][\A q \in Queries : QueryFail(q) => qStatus'[q] # "loading"]_vars

(***************************************************************************)
(* C14, amended.  The requests sent with fetch are not retried: a list     *)
(* request of TaskManagement is sent only by the effect (mount, filter     *)
(* change), a POST of ClientPortal only by a submit, one at a time, and a  *)
(* failure leaves none in flight.  A query of React Query whose queryFn    *)
(* throws is sent again after a failure, without any event, until it has   *)
(* failed QueryRetry + 1 times.                                            *)
(***************************************************************************)
C14_RetryOnlyByReactQuery ==
    /\ [](portalPosts <= 1)
    /\ [](\A q \in Queries : qFailures[q] <= QueryRetry + 1)
    /\ [][LET tm == SessionOf("TaskManagement")
          IN  /\ (tasksFetch[tm].pc # "sent" /\ tasksFetch'[tm].pc = "sent")
                     => TasksRefetch(tm)
              /\ TasksFetchFail(tm) => tasksFetch'[tm].pc = "idle"
              /\ portalPosts' > portalPosts => PortalSubmit
              /\ PortalFail => (portalPosts' = 0 /\ ~isSubmitting')
              /\ \A q \in Queries :
                    (QueryFail(q) /\ QueryFn(q, FALSE).threw) =>
                        (qStatus'[q] = "loading" <=> qFailures[q] < QueryRetry)]_vars

\* Dashboard's query has failed for good after its retries, the list
\* request of TaskManagement has failed and none is in flight.
C14_Witness ==
    /\ qStatus["dashboard-stats"] = "error"
    /\ qFailures["dashboard-stats"] = QueryRetry + 1
    /\ lastFetch[SessionOf("TaskManagement")] = "failed"
    /\ tasksFetch[SessionOf("TaskManagement")].pc = "idle"
    /\ portalPosts = 0

====
